---- MODULE Spec2Model ----
(***************************************************************************)
(* RustyZip (src/src/lib.rs): Huffman-style coding of a text.              *)
(*   encode = read -> parse_text -> parse_map -> get_tree ->               *)
(*            get_char_encoding -> encode_text -> write                    *)
(* Characters are one-character strings, trees are records: a Leaf is      *)
(* [ch |-> c], a Node is [left |-> l, right |-> r].  A forest entry        *)
(* (Tree, usize) is the pair <<tree, count>>.  Vec indices are 0-based as  *)
(* in the source; TLA+ sequences are 1-based, hence the +1 on accesses.    *)
(***************************************************************************)
EXTENDS Integers, Sequences, FiniteSets, TLC

VARIABLES
    input_file,      \* contents of the file at input_path
    output_file,     \* the file at output_path: Absent, or File(bytes) once written
    pc,              \* position of the running call
    text,            \* encode: text
    map,             \* parse_text accumulator / encode: map
    keys,            \* parse_map: entries of map.iter() not yet yielded
    tree_as_vector,  \* parse_map accumulator / get_tree: tree_as_vector / get_sorted_index: sorted_vector
    count,           \* the weight handed to get_sorted_index (its argument other)
    index,           \* the value get_sorted_index returned last
    tree,            \* encode: tree
    char_encoding,   \* encode: char_encoding
    contents,        \* encode_text accumulator / encode: contents
    pos              \* position of text.chars() in the running fold (1-based)

vars == <<input_file, output_file, pc, text, map, keys, tree_as_vector, count,
          index, tree, char_encoding, contents, pos>>

----------------------------------------------------------------------------
(* Bounds of the model *)

MaxLen == 4

MaxForest == 4

MaxWeight == 3

SmallDepth == 3

MaxTreeDepth == 9

(* Program constants *)

U8Bits == 8

Alphabet == {"a", "b", "c", "d"}

\* mutant of NUL: the digit '0' where the null character is meant
NUL_digit == "0"

NUL == "\\0"

\* the local tree before get_tree has returned
NoTree == [unbound |-> TRUE]

\* the file at output_path: Absent until it is written, then File(bytes)
Absent == <<>>

File(bytes) == <<bytes>>

Bytes(file) == file[1]

EmptyMap == [ch \in {} |-> 0]

----------------------------------------------------------------------------
(* Tree *)

Leaf(ch) == [ch |-> ch]

Node(left, right) == [left |-> left, right |-> right]

IsLeaf(t) == "ch" \in DOMAIN t

----------------------------------------------------------------------------
(* u8 arithmetic *)

RECURSIVE Pow2(_)
Pow2(n) == IF n = 0 THEN 1 ELSE 2 * Pow2(n - 1)

U8 == Pow2(U8Bits)

\* depth << 1 on u8: the bit shifted out of the top is lost
Shl1(depth) == (depth * 2) % U8

RECURSIVE Xor(_, _)
\* code ^ depth
Xor(a, b) ==
    IF a = 0 THEN b
    ELSE IF b = 0 THEN a
    ELSE (((a % 2) + (b % 2)) % 2) + (2 * Xor(a \div 2, b \div 2))

----------------------------------------------------------------------------
(* Vec and HashMap operations *)

\* Vec::insert(index, element), index 0-based
VecInsert(v, i, e) == SubSeq(v, 1, i) \o <<e>> \o SubSeq(v, i + 1, Len(v))

\* Vec::remove(0): the vector without its first element
VecRemove0(v) == SubSeq(v, 2, Len(v))

\* HashMap::insert(k, x)
MapInsert(m, k, x) == [c \in DOMAIN m \cup {k} |-> IF c = k THEN x ELSE m[c]]

----------------------------------------------------------------------------
(* get_sorted_index *)

\* slice::binary_search_by with the comparator count.cmp(other): Ok(i) for an
\* i whose count equals other -- when several do, the library leaves open
\* which one -- and Err(insertion point) when none does.
\* The operator is the set of values the call can return.
binary_search_by(sorted_vector, other) ==
    LET n == Len(sorted_vector)
        hits == {i \in 0..(n - 1) : sorted_vector[i + 1][2] = other}
        less == {i \in 0..(n - 1) : sorted_vector[i + 1][2] < other}
    IN  IF hits # {} THEN [ok : {TRUE}, index : hits]
        ELSE {[ok |-> FALSE, index |-> Cardinality(less)]}

\* mutant of get_sorted_index: the new entry always goes to the end (push)
get_sorted_index_push(sorted_vector, other) == {Len(sorted_vector)}

\* mutant of get_sorted_index: Ok(index) => index + 1
get_sorted_index_after_match(sorted_vector, other) ==
    {IF result.ok THEN result.index + 1 ELSE result.index :
        result \in binary_search_by(sorted_vector, other)}

get_sorted_index(sorted_vector, other) ==
    {result.index : result \in binary_search_by(sorted_vector, other)}

----------------------------------------------------------------------------
(* parse_text, parse_map: the closures of the folds *)

\* mutant of parse_text_fold: the entry is set to 1, not incremented
parse_text_fold_set_one(acc, ch) == MapInsert(acc, ch, 1)

\* *acc.entry(ch).or_default() += 1
parse_text_fold(acc, ch) ==
    MapInsert(acc, ch, (IF ch \in DOMAIN acc THEN acc[ch] ELSE 0) + 1)

\* mutant of parse_map_fold: the entry at index is overwritten (acc[index] =)
\* where one is there, instead of being shifted right
parse_map_fold_overwrite(acc, i, ch, n) ==
    IF i < Len(acc) THEN [acc EXCEPT ![i + 1] = <<Leaf(ch), n>>]
    ELSE Append(acc, <<Leaf(ch), n>>)

\* acc.insert(index, (Tree::Leaf { ch }, count))
parse_map_fold(acc, i, ch, n) == VecInsert(acc, i, <<Leaf(ch), n>>)

----------------------------------------------------------------------------
(* get_tree: one merge *)

\* mutant of merge: the first removed entry becomes the left child
merge_swapped(v) == Node(v[1][1], v[2][1])

\* mutant of merge: the second removed entry is used for both children
merge_left_twice(v) == Node(v[2][1], v[2][1])

\* Tree::Node { left: second removed, right: first removed }
merge(v) == Node(v[2][1], v[1][1])

\* mutant of merge_count: the right child's count is left out
merge_count_left(v) == v[2][2]

\* count = left_count + right_count
merge_count(v) == v[2][2] + v[1][2]

\* mutant of merge_rest: only one remove(0)
merge_rest_one(v) == VecRemove0(v)

\* the vector after the two remove(0)
merge_rest(v) == VecRemove0(VecRemove0(v))

----------------------------------------------------------------------------
(* dfs, get_char_encoding *)

RECURSIVE dfs_toggle_shifted(_, _, _, _)
\* mutant of dfs: the code is toggled by the cursor after its shift
dfs_toggle_shifted(t, result, code, depth) ==
    IF IsLeaf(t) THEN MapInsert(result, t.ch, code)
    ELSE LET after_left == dfs_toggle_shifted(t.left, result, code, Shl1(depth))
         IN  dfs_toggle_shifted(t.right, after_left, Xor(code, Shl1(depth)), Shl1(depth))

RECURSIVE dfs_toggle_left(_, _, _, _)
\* mutant of dfs: the code is toggled before the left child is visited
dfs_toggle_left(t, result, code, depth) ==
    IF IsLeaf(t) THEN MapInsert(result, t.ch, code)
    ELSE LET after_left == dfs_toggle_left(t.left, result, Xor(code, depth), Shl1(depth))
         IN  dfs_toggle_left(t.right, after_left, code, Shl1(depth))

RECURSIVE dfs(_, _, _, _)
dfs(t, result, code, depth) ==
    IF IsLeaf(t) THEN MapInsert(result, t.ch, code)
    ELSE LET after_left == dfs(t.left, result, code, Shl1(depth))
         IN  dfs(t.right, after_left, Xor(code, depth), Shl1(depth))

\* mutant of get_char_encoding: a lone leaf gets the cursor, not the code
RECURSIVE dfs_calls_toggle_shifted(_, _, _, _)
\* mutant of dfs_calls: the code is toggled by the cursor after its shift
dfs_calls_toggle_shifted(t, path, code, depth) ==
    {[path |-> path, tree |-> t, code |-> code, depth |-> depth]} \cup
    (IF IsLeaf(t) THEN {}
     ELSE dfs_calls_toggle_shifted(t.left, Append(path, "left"), code, Shl1(depth)) \cup
          dfs_calls_toggle_shifted(t.right, Append(path, "right"),
                                   Xor(code, Shl1(depth)), Shl1(depth)))

RECURSIVE dfs_calls(_, _, _, _)
\* the calls of dfs that dfs(t, _, code, depth) makes, itself included: the
\* arguments tree, code and depth of each, and its place path below t
dfs_calls(t, path, code, depth) ==
    {[path |-> path, tree |-> t, code |-> code, depth |-> depth]} \cup
    (IF IsLeaf(t) THEN {}
     ELSE dfs_calls(t.left, Append(path, "left"), code, Shl1(depth)) \cup
          dfs_calls(t.right, Append(path, "right"), Xor(code, depth), Shl1(depth)))

\* the calls of dfs made by get_char_encoding(t)
get_char_encoding_calls(t) ==
    IF IsLeaf(t) THEN {} ELSE dfs_calls(t, <<>>, 0, 1)

get_char_encoding_leaf_cursor(t) ==
    IF IsLeaf(t) THEN MapInsert(EmptyMap, t.ch, 1)
    ELSE dfs(t, EmptyMap, 0, 1)

get_char_encoding(t) ==
    IF IsLeaf(t) THEN MapInsert(EmptyMap, t.ch, 0)
    ELSE dfs(t, EmptyMap, 0, 1)

----------------------------------------------------------------------------
(* encode_text: the closure of the fold *)

\* mutant of encode_text_fold: the code is put in front of the accumulator
encode_text_fold_front(acc, ch, table) == <<table[ch]>> \o acc

\* acc.push(*char_encoding.get(&ch).unwrap())
encode_text_fold(acc, ch, table) == Append(acc, table[ch])

----------------------------------------------------------------------------
(* Inputs *)

SeqsUpTo(S, n) == UNION {[1..k -> S] : k \in 0..n}

\* the texts of the crate's tests
TextClassic == <<"a","a","a","b","a","b","a","b","a","b","a">>

TextThreeChars == <<"a","a","a","b","a","b","a","b","a","b","a","c","c","c">>

TextFiveChars == <<"a","b","a","b","a","b","a","b","a","c","c","c","d","e","e">>

Texts == SeqsUpTo(Alphabet, MaxLen) \cup {TextClassic, TextThreeChars, TextFiveChars}

----------------------------------------------------------------------------
(* encode *)

Locals ==
    /\ text = <<>>
    /\ map = EmptyMap
    /\ keys = {}
    /\ tree_as_vector = <<>>
    /\ count = 0
    /\ index = 0
    /\ tree = NoTree
    /\ char_encoding = EmptyMap
    /\ contents = <<>>
    /\ pos = 1

Init ==
    /\ input_file \in Texts
    /\ output_file = Absent
    /\ pc = "read"
    /\ Locals

\* let text = fs::read_to_string(input_path)
ReadInput ==
    /\ pc = "read"
    /\ text' = input_file
    /\ pc' = "parse_text"
    /\ UNCHANGED <<input_file, output_file, map, keys, tree_as_vector, count,
                   index, tree, char_encoding, contents, pos>>

\* one step of the fold of parse_text
ParseTextStep ==
    /\ pc = "parse_text"
    /\ pos <= Len(text)
    /\ map' = parse_text_fold(map, text[pos])
    /\ pos' = pos + 1
    /\ UNCHANGED <<input_file, output_file, pc, text, keys, tree_as_vector,
                   count, index, tree, char_encoding, contents>>

\* parse_text returns; parse_map starts iterating the map
ParseTextReturn(ret) ==
    /\ pc = "parse_text"
    /\ pos > Len(text)
    /\ pos' = 1
    /\ keys' = DOMAIN map
    /\ pc' = ret
    /\ UNCHANGED <<input_file, output_file, text, map, tree_as_vector, count,
                   index, tree, char_encoding, contents>>

\* one step of the fold of parse_map: map.iter() yields any remaining entry
ParseMapStep ==
    /\ pc = "parse_map"
    /\ \E ch \in keys :
         \E i \in get_sorted_index(tree_as_vector, map[ch]) :
            /\ count' = map[ch]
            /\ index' = i
            /\ tree_as_vector' = parse_map_fold(tree_as_vector, i, ch, map[ch])
            /\ keys' = keys \ {ch}
    /\ UNCHANGED <<input_file, output_file, pc, text, map, tree,
                   char_encoding, contents, pos>>

ParseMapReturn(ret) ==
    /\ pc = "parse_map"
    /\ keys = {}
    /\ pc' = ret
    /\ UNCHANGED <<input_file, output_file, text, map, keys, tree_as_vector,
                   count, index, tree, char_encoding, contents, pos>>

\* if tree_as_vector.len() == 0 { return Tree::Leaf { ch: '\0' } }
GetTreeEmpty(ret) ==
    /\ pc = "get_tree"
    /\ Len(tree_as_vector) = 0
    /\ tree' = Leaf(NUL)
    /\ pc' = ret
    /\ UNCHANGED <<input_file, output_file, text, map, keys, tree_as_vector,
                   count, index, char_encoding, contents, pos>>

\* if tree_as_vector.len() == 1 { the leaf, or panic on a Node }
GetTreeSingle(ret) ==
    /\ pc = "get_tree"
    /\ Len(tree_as_vector) = 1
    /\ IF IsLeaf(tree_as_vector[1][1])
       THEN tree' = Leaf(tree_as_vector[1][1].ch) /\ pc' = ret
       ELSE tree' = tree /\ pc' = "panic"
    /\ UNCHANGED <<input_file, output_file, text, map, keys, tree_as_vector,
                   count, index, char_encoding, contents, pos>>

\* one iteration of while tree_as_vector.len() > 2
GetTreeLoop ==
    /\ pc \in {"get_tree", "get_tree_loop"}
    /\ Len(tree_as_vector) > 2
    /\ LET rest == merge_rest(tree_as_vector)
           sum == merge_count(tree_as_vector)
       IN  \E i \in get_sorted_index(rest, sum) :
              /\ count' = sum
              /\ index' = i
              /\ tree_as_vector' = VecInsert(rest, i, <<merge(tree_as_vector), sum>>)
    /\ pc' = "get_tree_loop"
    /\ UNCHANGED <<input_file, output_file, text, map, keys, tree,
                   char_encoding, contents, pos>>

\* the last two entries become the root
GetTreeFinal(ret) ==
    /\ pc \in {"get_tree", "get_tree_loop"}
    /\ Len(tree_as_vector) = 2
    /\ tree' = merge(tree_as_vector)
    /\ tree_as_vector' = merge_rest(tree_as_vector)
    /\ pc' = ret
    /\ UNCHANGED <<input_file, output_file, text, map, keys, count, index,
                   char_encoding, contents, pos>>

GetCharEncoding(ret) ==
    /\ pc = "get_char_encoding"
    /\ char_encoding' = get_char_encoding(tree)
    /\ pc' = ret
    /\ UNCHANGED <<input_file, output_file, text, map, keys, tree_as_vector,
                   count, index, tree, contents, pos>>

\* one step of the fold of encode_text; unwrap() on a missing entry panics
EncodeTextStep ==
    /\ pc = "encode_text"
    /\ pos <= Len(text)
    /\ IF text[pos] \in DOMAIN char_encoding
       THEN /\ contents' = encode_text_fold(contents, text[pos], char_encoding)
            /\ pos' = pos + 1
            /\ pc' = pc
       ELSE /\ pc' = "panic"
            /\ UNCHANGED <<contents, pos>>
    /\ UNCHANGED <<input_file, output_file, text, map, keys, tree_as_vector,
                   count, index, tree, char_encoding>>

EncodeTextReturn(ret) ==
    /\ pc = "encode_text"
    /\ pos > Len(text)
    /\ pos' = 1
    /\ pc' = ret
    /\ UNCHANGED <<input_file, output_file, text, map, keys, tree_as_vector,
                   count, index, tree, char_encoding, contents>>

\* fs::write(output_path, contents)
WriteOutput ==
    /\ pc = "write"
    /\ output_file' = File(contents)
    /\ pc' = "done"
    /\ UNCHANGED <<input_file, text, map, keys, tree_as_vector, count, index,
                   tree, char_encoding, contents, pos>>

\* the caller runs encode once more on the same files: fresh locals
EncodeAgain ==
    /\ pc = "done"
    /\ pc' = "read"
    /\ text' = <<>>
    /\ map' = EmptyMap
    /\ keys' = {}
    /\ tree_as_vector' = <<>>
    /\ count' = 0
    /\ index' = 0
    /\ tree' = NoTree
    /\ char_encoding' = EmptyMap
    /\ contents' = <<>>
    /\ pos' = 1
    /\ UNCHANGED <<input_file, output_file>>

Next ==
    \/ ReadInput
    \/ ParseTextStep
    \/ ParseTextReturn("parse_map")
    \/ ParseMapStep
    \/ ParseMapReturn("get_tree")
    \/ GetTreeEmpty("get_char_encoding")
    \/ GetTreeSingle("get_char_encoding")
    \/ GetTreeLoop
    \/ GetTreeFinal("get_char_encoding")
    \/ GetCharEncoding("encode_text")
    \/ EncodeTextStep
    \/ EncodeTextReturn("write")
    \/ WriteOutput
    \/ EncodeAgain

Spec == Init /\ [][Next]_vars

----------------------------------------------------------------------------
(* The functions called on their own, as the crate's unit tests call them *)

\* get_sorted_index(&sorted_vector, &count)
GetSortedIndex(ret) ==
    /\ pc = "get_sorted_index"
    /\ index' \in get_sorted_index(tree_as_vector, count)
    /\ pc' = ret
    /\ UNCHANGED <<input_file, output_file, text, map, keys, tree_as_vector,
                   count, tree, char_encoding, contents, pos>>

\* weight-sorted vectors of up to MaxForest entries, built as the unit test
\* builds them: every element is Leaf '0'
RECURSIVE SortedVectors(_, _)
SortedVectors(n, lo) ==
    {<<>>} \cup
    (IF n = 0 THEN {}
     ELSE UNION {{<<<<Leaf("0"), w>>>> \o v : v \in SortedVectors(n - 1, w)} :
                 w \in lo..MaxWeight})

InitIndex ==
    /\ input_file = <<>>
    /\ output_file = Absent
    /\ pc = "get_sorted_index"
    /\ text = <<>>
    /\ map = EmptyMap
    /\ keys = {}
    /\ tree_as_vector \in SortedVectors(MaxForest, 0)
    /\ count \in 0..(MaxWeight + 1)
    /\ index = 0
    /\ tree = NoTree
    /\ char_encoding = EmptyMap
    /\ contents = <<>>
    /\ pos = 1

NextIndex == GetSortedIndex("return")

SpecIndex == InitIndex /\ [][NextIndex]_vars

\* leaf names for the trees handed to get_char_encoding
LeafChars ==
    <<"a", "b", "c", "d", "e", "f", "g", "h", "i", "j", "k", "l", "m", "n",
      "o", "p", "q", "r", "s", "t">>

RECURSIVE TreesFrom(_, _)
\* <<tree, k'>>: the trees of depth <= d whose leaves are LeafChars[k],
\* LeafChars[k+1], ... from left to right, k' the first name not used
TreesFrom(d, k) ==
    {<<Leaf(LeafChars[k]), k + 1>>} \cup
    (IF d = 0 THEN {}
     ELSE UNION {{<<Node(l[1], r[1]), r[2]>> : r \in TreesFrom(d - 1, l[2])} :
                 l \in TreesFrom(d - 1, k)})

RECURSIVE Combs(_, _)
\* the trees of depth <= d made of a spine of Nodes that each have a Leaf
\* child, ending in any tree of depth <= 2
Combs(d, k) ==
    {p[1] : p \in TreesFrom(IF d < 2 THEN d ELSE 2, k)} \cup
    (IF d = 0 THEN {}
     ELSE UNION {{Node(Leaf(LeafChars[k]), t), Node(t, Leaf(LeafChars[k]))} :
                 t \in Combs(d - 1, k + 1)})

TreeInputs == {p[1] : p \in TreesFrom(SmallDepth, 1)} \cup Combs(MaxTreeDepth, 1)

InitTree ==
    /\ input_file = <<>>
    /\ output_file = Absent
    /\ pc = "get_char_encoding"
    /\ text = <<>>
    /\ map = EmptyMap
    /\ keys = {}
    /\ tree_as_vector = <<>>
    /\ count = 0
    /\ index = 0
    /\ tree \in TreeInputs
    /\ char_encoding = EmptyMap
    /\ contents = <<>>
    /\ pos = 1

NextTree == GetCharEncoding("return")

SpecTree == InitTree /\ [][NextTree]_vars

\* code tables for encode_text called on its own: any table over TableChars
TableChars == {"a", "b", "c"}

TableCodes == {0, 1, 255}

Tables == UNION {[S -> TableCodes] : S \in SUBSET TableChars}

InitEncodeText ==
    /\ input_file = <<>>
    /\ output_file = Absent
    /\ pc = "encode_text"
    /\ text \in SeqsUpTo(TableChars, MaxLen)
    /\ map = EmptyMap
    /\ keys = {}
    /\ tree_as_vector = <<>>
    /\ count = 0
    /\ index = 0
    /\ tree = NoTree
    /\ char_encoding \in Tables
    /\ contents = <<>>
    /\ pos = 1

NextEncodeText ==
    \/ EncodeTextStep
    \/ EncodeTextReturn("return")

SpecEncodeText == InitEncodeText /\ [][NextEncodeText]_vars

----------------------------------------------------------------------------
(* Notions the properties are stated with *)

RECURSIVE Depth(_)
\* the number of edges from the root to the deepest leaf
Depth(t) ==
    IF IsLeaf(t) THEN 0
    ELSE LET l == Depth(t.left)
             r == Depth(t.right)
         IN  1 + (IF l >= r THEN l ELSE r)

RECURSIVE LeafSeq(_)
\* the leaf characters from left to right
LeafSeq(t) == IF IsLeaf(t) THEN <<t.ch>> ELSE LeafSeq(t.left) \o LeafSeq(t.right)

Range(f) == {f[x] : x \in DOMAIN f}

DistinctLeaves(t) == Cardinality(Range(LeafSeq(t))) = Len(LeafSeq(t))

DistinctCodes(table) ==
    \A c1, c2 \in DOMAIN table : c1 # c2 => table[c1] # table[c2]

Occurrences(s, ch) == Cardinality({i \in 1..Len(s) : s[i] = ch})

Sorted(v) == \A i \in 1..(Len(v) - 1) : v[i][2] <= v[i + 1][2]

\* the number of entries of v lighter than w
LowerBound(v, w) == Cardinality({i \in 1..Len(v) : v[i][2] < w})

RECURSIVE SumWeights(_)
SumWeights(v) == IF v = <<>> THEN 0 ELSE v[1][2] + SumWeights(Tail(v))

----------------------------------------------------------------------------
(* Properties *)

\* C1: when the table has an entry for each character of the text,
\* encode_text does not fail and returns one element per character of the
\* text, the i-th being the table's code of the i-th character.
C1_EncodeTextOneCodePerChar ==
    (\A i \in 1..Len(text) : text[i] \in DOMAIN char_encoding) =>
        /\ pc # "panic"
        /\ pc = "return" =>
             /\ Len(contents) = Len(text)
             /\ \A i \in 1..Len(text) : contents[i] = char_encoding[text[i]]

C1_Witness ==
    /\ pc = "return"
    /\ Len(text) >= 3
    /\ \E i, j \in 1..Len(contents) : contents[i] # contents[j]

\* C2: for a tree of two or more leaves with pairwise distinct characters,
\* the table get_char_encoding returns gives distinct characters distinct
\* codes (whatever the depth of the tree).
C2_DistinctCodesAnyDepth ==
    (pc = "return" /\ Len(LeafSeq(tree)) >= 2 /\ DistinctLeaves(tree)) =>
        DistinctCodes(char_encoding)

\* C3: for a tree of depth at most 8 with pairwise distinct leaf characters,
\* get_char_encoding gives no two distinct characters the same code.
C3_DistinctCodesUpToDepth8 ==
    (pc = "return" /\ Depth(tree) <= U8Bits /\ DistinctLeaves(tree)) =>
        DistinctCodes(char_encoding)

C3_Witness ==
    /\ pc = "return"
    /\ Depth(tree) = U8Bits
    /\ DistinctLeaves(tree)
    /\ Cardinality(DOMAIN char_encoding) = U8Bits + 1

\* C4: a run of encode on a text yields the output the previous run of
\* encode on the same text wrote, whatever order parse_map iterates the
\* frequency mapping in.
C4_SameOutputEveryRun ==
    (pc = "write" /\ output_file # Absent) => contents = Bytes(output_file)

\* C5: the forest is sorted by non-decreasing weight in every state, hence
\* after each insertion of parse_map and each re-insertion of get_tree.
C5_ForestSortedAfterEveryInsertion == Sorted(tree_as_vector)

C5_Witness ==
    /\ pc = "get_tree_loop"
    /\ Len(tree_as_vector) >= 3
    /\ index >= 1
    /\ ~IsLeaf(tree_as_vector[index + 1][1])
    /\ tree_as_vector[index][2] < tree_as_vector[index + 1][2]

\* C6 as stated: get_sorted_index returns the lower-bound position, the
\* index of the first entry whose weight is not below w.
C6_LowerBoundPosition ==
    pc = "return" => index = LowerBound(tree_as_vector, count)

\* C6 as amended: get_sorted_index returns a position that keeps the forest
\* sorted (entries before it weigh <= w, entries from it on weigh >= w); it
\* is the lower bound when no entry weighs w, and the index of one of the
\* entries that weigh w, not always the first, when some do.
C6_SortedPosition ==
    pc = "return" =>
        LET v == tree_as_vector
        IN  /\ index \in 0..Len(v)
            /\ \A i \in 1..index : v[i][2] <= count
            /\ \A i \in (index + 1)..Len(v) : v[i][2] >= count
            /\ (\A i \in 1..Len(v) : v[i][2] # count) =>
                   index = LowerBound(v, count)
            /\ (\E i \in 1..Len(v) : v[i][2] = count) =>
                   (index < Len(v) /\ v[index + 1][2] = count)

C6_Witness ==
    /\ pc = "return"
    /\ index > LowerBound(tree_as_vector, count)
    /\ tree_as_vector[index + 1][2] = count

\* C7: for a non-empty text the forest parse_map returns has one leaf per
\* distinct character, weighted by the character's number of occurrences,
\* and the weights add up to the length of the text.
C7_InitialForestCountsText ==
    (pc = "get_tree" /\ text # <<>>) =>
        LET v == tree_as_vector
        IN  /\ Len(v) = Cardinality(Range(text))
            /\ \A i \in 1..Len(v) :
                   /\ IsLeaf(v[i][1])
                   /\ v[i][1].ch \in Range(text)
                   /\ v[i][2] = Occurrences(text, v[i][1].ch)
            /\ \A i, j \in 1..Len(v) : i # j => v[i][1] # v[j][1]
            /\ SumWeights(v) = Len(text)

C7_Witness ==
    /\ pc = "get_tree"
    /\ Len(text) >= 3
    /\ Len(tree_as_vector) >= 2
    /\ \E i \in 1..Len(tree_as_vector) : tree_as_vector[i][2] >= 2

FiveCharsTable == [a |-> 0, b |-> 2, c |-> 1, d |-> 7, e |-> 3]

\* C8: for "ababababacccdee" the code table is a=0, c=1, b=2, e=3, d=7 in
\* every run.
C8_FiveCharsCodes ==
    (input_file = TextFiveChars /\ pc \in {"encode_text", "write", "done"}) =>
        char_encoding = FiveCharsTable

C8_Witness ==
    /\ input_file = TextFiveChars
    /\ pc = "done"
    /\ Len(Bytes(output_file)) = Len(TextFiveChars)

\* C9 as stated: for "aaababababaccc" b and c are merged first and the code
\* table is a=0, b=2, c=3.
C9_ThreeCharsCodesAsStated ==
    /\ (input_file = TextThreeChars /\ pc = "get_tree_loop") =>
           tree_as_vector = <<<<Node(Leaf("b"), Leaf("c")), 7>>, <<Leaf("a"), 7>>>>
    /\ (input_file = TextThreeChars /\ pc \in {"encode_text", "write", "done"}) =>
           char_encoding = [a |-> 0, b |-> 2, c |-> 3]

\* C9 as amended: for "aaababababaccc" b and c are merged first and the code
\* table is a=0, b=1, c=3.
C9_ThreeCharsCodes ==
    /\ (input_file = TextThreeChars /\ pc = "get_tree_loop") =>
           tree_as_vector = <<<<Node(Leaf("b"), Leaf("c")), 7>>, <<Leaf("a"), 7>>>>
    /\ (input_file = TextThreeChars /\ pc \in {"encode_text", "write", "done"}) =>
           char_encoding = [a |-> 0, b |-> 1, c |-> 3]

C9_Witness ==
    /\ input_file = TextThreeChars
    /\ pc = "write"
    /\ Len(contents) = Len(TextThreeChars)

\* C10: for a text of exactly two distinct characters with different counts
\* the more frequent one gets code 0, the other code 1, and the output holds
\* the code of each character of the text, in text order.
C10_TwoCharsCodes ==
    (pc \in {"write", "done"} /\ Cardinality(Range(text)) = 2) =>
        \A x, y \in Range(text) :
            Occurrences(text, x) > Occurrences(text, y) =>
                /\ char_encoding[x] = 0
                /\ char_encoding[y] = 1
                /\ Len(contents) = Len(text)
                /\ \A i \in 1..Len(text) : contents[i] = char_encoding[text[i]]

C10_Witness ==
    /\ input_file = TextClassic
    /\ pc = "done"
    /\ output_file = File(<<0, 0, 0, 1, 0, 1, 0, 1, 0, 1, 0>>)

\* a step of get_tree that merges: the first two entries leave the vector
MergeStep ==
    /\ pc \in {"get_tree", "get_tree_loop"}
    /\ Len(tree_as_vector) >= 2
    /\ vars' # vars

\* the Node a merging step has built: re-inserted at index by the loop,
\* returned by the final merge
MergedNode ==
    IF Len(tree_as_vector) > 2 THEN tree_as_vector'[index' + 1][1] ELSE tree'

\* C11: every merge of get_tree makes the entry at position 0 the right child
\* and the entry at position 1 the left child; a forest of two leaves of
\* different weights gives Node(heavier, lighter), "aaababababa" gives
\* Node(a, b) and "aaababababaccc" gives Node(a, Node(b, c)).
C11_FirstRemovedIsRight ==
    /\ [][MergeStep =>
            /\ ~IsLeaf(MergedNode)
            /\ MergedNode.right = tree_as_vector[1][1]
            /\ MergedNode.left = tree_as_vector[2][1]]_vars
    /\ [][(MergeStep /\ pc = "get_tree" /\ Len(tree_as_vector) = 2
             /\ tree_as_vector[1][2] # tree_as_vector[2][2]) =>
            \A x, y \in DOMAIN map :
                map[x] > map[y] => tree' = Node(Leaf(x), Leaf(y))]_vars
    /\ [](pc = "get_char_encoding" =>
            /\ input_file = TextClassic => tree = Node(Leaf("a"), Leaf("b"))
            /\ input_file = TextThreeChars =>
                   tree = Node(Leaf("a"), Node(Leaf("b"), Leaf("c"))))

C11_Witness ==
    /\ pc = "get_char_encoding"
    /\ input_file = TextThreeChars
    /\ ~IsLeaf(tree)

\* C12: for the empty text parse_text returns an empty mapping, parse_map an
\* empty forest, get_tree the leaf of the null character, get_char_encoding
\* the table that maps only the null character to 0, and encode_text an
\* empty sequence.
C12_EmptyText ==
    input_file = <<>> =>
        /\ pc = "parse_map" => map = EmptyMap
        /\ pc = "get_tree" => tree_as_vector = <<>>
        /\ pc = "get_char_encoding" => tree = [ch |-> "\\0"]
        /\ pc = "encode_text" =>
               (DOMAIN char_encoding = {"\\0"} /\ char_encoding["\\0"] = 0)
        /\ pc \in {"write", "done"} => contents = <<>>
        /\ pc # "panic"

C12_Witness ==
    /\ input_file = <<>>
    /\ pc = "done"
    /\ output_file = File(<<>>)
    /\ DOMAIN char_encoding = {"\\0"}

\* C13: for a text that repeats one character n >= 1 times, get_tree returns
\* the leaf of that character, the character gets code 0 and the output is
\* n zero bytes.
C13_SingleCharText ==
    (text # <<>> /\ Cardinality(Range(text)) = 1) =>
        /\ pc = "get_char_encoding" => tree = Leaf(text[1])
        /\ pc \in {"encode_text", "write", "done"} =>
               (DOMAIN char_encoding = {text[1]} /\ char_encoding[text[1]] = 0)
        /\ pc \in {"write", "done"} => contents = [i \in 1..Len(text) |-> 0]
        /\ pc # "panic"

C13_Witness ==
    /\ pc = "done"
    /\ Cardinality(Range(text)) = 1
    /\ Len(text) = 4
    /\ output_file = File(<<0, 0, 0, 0>>)

\* C14: for a non-empty text the leaves of the tree get_tree returns are the
\* distinct characters of the text, each exactly once, and the keys of the
\* table get_char_encoding returns are exactly those characters.
C14_LeavesAreTheCharacters ==
    (text # <<>> /\ pc \in {"get_char_encoding", "encode_text", "write", "done"}) =>
        /\ Range(LeafSeq(tree)) = Range(text)
        /\ Len(LeafSeq(tree)) = Cardinality(Range(text))
        /\ pc # "get_char_encoding" => DOMAIN char_encoding = Range(text)

C14_Witness ==
    /\ pc = "encode_text"
    /\ Len(LeafSeq(tree)) = 4
    /\ Depth(tree) = 2
    /\ Len(text) = 4

\* C15: in encode every character encode_text still has to look up has an
\* entry in the table, so the unwrap never fails and no run panics; this
\* covers the empty text and texts of one distinct character.
C15_NoMissingTableEntry ==
    /\ pc # "panic"
    /\ pc = "encode_text" =>
           \A i \in pos..Len(text) : text[i] \in DOMAIN char_encoding

C15_Witness ==
    /\ pc = "encode_text"
    /\ pos = Len(text) + 1
    /\ Len(text) >= 3
    /\ Cardinality(Range(contents)) >= 3

\* the call of dfs on the child of call x on the given side
ChildCall(calls, x, side) ==
    CHOOSE y \in calls : y.path = Append(x.path, side)

\* the calls start at the root with code 0 and cursor 1, a Node's children
\* are both visited, and the table holds the code of every Leaf visited
CallsOfTraversal(calls) ==
    /\ \E x \in calls : x.path = <<>> /\ x.tree = tree /\ x.code = 0 /\ x.depth = 1
    /\ \A x \in calls : ~IsLeaf(x.tree) =>
           /\ \E y \in calls : y.path = Append(x.path, "left") /\ y.tree = x.tree.left
           /\ \E y \in calls : y.path = Append(x.path, "right") /\ y.tree = x.tree.right
    /\ \A x \in calls : IsLeaf(x.tree) => char_encoding[x.tree.ch] = x.code

\* C16 as stated: at a Node visited with code c and cursor d, the left child
\* is visited with code c and cursor d << 1, the right child with code
\* c XOR (d << 1) and cursor d << 1.
C16_ToggleByShiftedCursor ==
    (pc = "return" /\ ~IsLeaf(tree)) =>
        LET calls == get_char_encoding_calls(tree)
        IN  /\ CallsOfTraversal(calls)
            /\ \A x \in calls : ~IsLeaf(x.tree) =>
                   LET l == ChildCall(calls, x, "left")
                       r == ChildCall(calls, x, "right")
                   IN  /\ l.code = x.code
                       /\ l.depth = Shl1(x.depth)
                       /\ r.code = Xor(x.code, Shl1(x.depth))
                       /\ r.depth = Shl1(x.depth)

\* C16 as amended: at a Node visited with code c and cursor d, the left child
\* is visited with code c and cursor d << 1, the right child with code
\* c XOR d (the cursor before its shift) and cursor d << 1.
C16_ToggleByCursor ==
    (pc = "return" /\ ~IsLeaf(tree)) =>
        LET calls == get_char_encoding_calls(tree)
        IN  /\ CallsOfTraversal(calls)
            /\ \A x \in calls : ~IsLeaf(x.tree) =>
                   LET l == ChildCall(calls, x, "left")
                       r == ChildCall(calls, x, "right")
                   IN  /\ l.code = x.code
                       /\ l.depth = Shl1(x.depth)
                       /\ r.code = Xor(x.code, x.depth)
                       /\ r.depth = Shl1(x.depth)

C16_Witness ==
    /\ pc = "return"
    /\ Depth(tree) = 3
    /\ Len(LeafSeq(tree)) = 8
    /\ \E ch \in DOMAIN char_encoding : char_encoding[ch] = 7

\* C17: in every merge of get_tree the two entries removed are two lightest
\* entries of the forest: no entry that stays weighs less than either.
C17_MergesTheTwoLightest ==
    [][MergeStep =>
         LET v == tree_as_vector
             removed == {i \in 1..Len(v) :
                            v[i][1] \in {MergedNode.left, MergedNode.right}}
             kept == {j \in 1..Len(tree_as_vector') :
                            tree_as_vector'[j][1] # MergedNode}
         IN  /\ Cardinality(removed) = 2
             /\ \A i \in (1..Len(v)) \ removed : \A k \in removed :
                    v[i][2] >= v[k][2]
             /\ \A j \in kept : \A k \in removed :
                    tree_as_vector'[j][2] >= v[k][2]]_vars

C17_Witness ==
    /\ pc = "get_tree_loop"
    /\ Len(tree_as_vector) = 3
    /\ \E i \in 1..3 : ~IsLeaf(tree_as_vector[i][1])
    /\ tree_as_vector[1][2] < tree_as_vector[3][2]

RECURSIVE TreeCount(_)
\* the occurrences in the text of the leaf characters beneath t
TreeCount(t) ==
    IF IsLeaf(t) THEN Occurrences(text, t.ch)
    ELSE TreeCount(t.left) + TreeCount(t.right)

\* C18: while parse_map builds the forest and get_tree reduces it, every
\* entry's weight is the number of occurrences in the text of the leaf
\* characters beneath it, and during get_tree the weights add up to the
\* length of the text.
C18_WeightIsLeafCount ==
    pc \in {"parse_map", "get_tree", "get_tree_loop"} =>
        /\ \A i \in 1..Len(tree_as_vector) :
               tree_as_vector[i][2] = TreeCount(tree_as_vector[i][1])
        /\ pc # "parse_map" => SumWeights(tree_as_vector) = Len(text)

C18_Witness ==
    /\ pc = "get_tree_loop"
    /\ \E i \in 1..Len(tree_as_vector) :
           /\ ~IsLeaf(tree_as_vector[i][1])
           /\ tree_as_vector[i][2] >= 6
    /\ SumWeights(tree_as_vector) = 15

RECURSIVE NodeCount(_)
\* the number of Nodes of t: one per merge that built it
NodeCount(t) ==
    IF IsLeaf(t) THEN 0 ELSE 1 + NodeCount(t.left) + NodeCount(t.right)

RECURSIVE ForestNodeCount(_)
ForestNodeCount(v) ==
    IF v = <<>> THEN 0 ELSE NodeCount(v[1][1]) + ForestNodeCount(Tail(v))

GetTreeRunning == pc \in {"get_tree", "get_tree_loop"}

\* C19: on a forest of n >= 2 entries get_tree always has a next step until
\* it returns, each loop iteration shortens the forest by exactly one entry,
\* the final merge empties it without re-inserting, and the tree returned
\* was built by exactly n - 1 merges (n - 2 of them by the loop).
C19_GetTreeReduction ==
    /\ [][(GetTreeRunning /\ Len(tree_as_vector) > 2 /\ vars' # vars) =>
             /\ Len(tree_as_vector') = Len(tree_as_vector) - 1
             /\ pc' = "get_tree_loop"]_vars
    /\ [][(GetTreeRunning /\ Len(tree_as_vector) = 2 /\ vars' # vars) =>
             /\ tree_as_vector' = <<>>
             /\ pc' = "get_char_encoding"
             /\ NodeCount(tree') = ForestNodeCount(tree_as_vector) + 1]_vars
    /\ [](pc = "get_tree_loop" => Len(tree_as_vector) >= 2)
    /\ []((GetTreeRunning /\ Cardinality(DOMAIN map) >= 2) =>
             /\ ENABLED (GetTreeLoop \/ GetTreeFinal("get_char_encoding"))
             /\ ForestNodeCount(tree_as_vector) =
                    Cardinality(DOMAIN map) - Len(tree_as_vector))
    /\ []((pc = "get_char_encoding" /\ Cardinality(DOMAIN map) >= 2) =>
             /\ tree_as_vector = <<>>
             /\ NodeCount(tree) = Cardinality(DOMAIN map) - 1)

C19_Witness ==
    /\ pc = "get_char_encoding"
    /\ Cardinality(DOMAIN map) = 5
    /\ NodeCount(tree) = 4
    /\ tree_as_vector = <<>>

RECURSIVE LeafDepth(_, _)
\* the number of edges from the root of t down to the leaf of ch
LeafDepth(t, ch) ==
    IF IsLeaf(t) THEN 0
    ELSE IF ch \in Range(LeafSeq(t.left)) THEN 1 + LeafDepth(t.left, ch)
    ELSE 1 + LeafDepth(t.right, ch)

\* C20: in the tree get_tree returns for a text of two or more distinct
\* characters, a character with strictly more occurrences is never strictly
\* deeper than one with fewer.
C20_MoreFrequentNotDeeper ==
    (pc = "get_char_encoding" /\ Cardinality(Range(text)) >= 2) =>
        \A x, y \in Range(text) :
            Occurrences(text, x) > Occurrences(text, y) =>
                LeafDepth(tree, x) <= LeafDepth(tree, y)

C20_Witness ==
    /\ pc = "get_char_encoding"
    /\ Cardinality(Range(text)) >= 3
    /\ Len(text) <= 4
    /\ \E x, y \in Range(text) :
           /\ Occurrences(text, x) > Occurrences(text, y)
           /\ LeafDepth(tree, x) < LeafDepth(tree, y)

====
